---- MODULE Spec2Model ----
(***************************************************************************)
(* Offline-first synchronisation engine of vuchada_backend:                *)
(* POST /api/sync/push (push_changes) and GET /api/sync/pull               *)
(* (pull_changes) of app/routers/sync.py over the tenant-partitioned       *)
(* store of app/db/models.py.                                              *)
(*                                                                         *)
(* Floats are modelled by integers, str values by sequences of one-letter  *)
(* strings, datetimes by the ticks of a logical server clock.              *)
(***************************************************************************)
EXTENDS Integers, Sequences, FiniteSets, TLC

(***************************************************************************)
(* Bounds of the model.                                                    *)
(***************************************************************************)
MaxTime == 1        \* the server clock of SpecFeed runs over 0..MaxTime
MaxBatch == 3       \* events per push request
MaxEvents == 3      \* events handled over one behaviour of Spec
MaxWrites == 2      \* events handled over one behaviour of SpecFeed
MaxPulls == 3       \* pull calls of one cursor chain
MaxUpserts == 3     \* events and payments handled over one behaviour of SpecUpsert
MaxPageWrites == 2  \* events handled over one behaviour of SpecPage
MaxRecords == 2     \* records of one batch of POST /api/dividas/sync
MaxLotes == 2       \* batches of debts over one behaviour of SpecLote
MaxSetup == 2       \* events handled before the concurrent calls of SpecRace
MaxRaces == 2       \* requests served at the same time in SpecRace
MaxScanWrites == 2  \* events handled over one behaviour of SpecScan

(***************************************************************************)
(* Python values carried by a payload (Dict[str, Any]).  Every value has   *)
(* the same shape so that any two of them can be compared.                 *)
(***************************************************************************)
Absent == [k |-> "absent", n |-> 0, s |-> <<>>]      \* key not in the dict
None == [k |-> "none", n |-> 0, s |-> <<>>]          \* key present, null
Num(x) == [k |-> "num", n |-> x, s |-> <<>>]
Str(x) == [k |-> "str", n |-> 0, s |-> x]
Bool(b) == [k |-> "bool", n |-> IF b THEN 1 ELSE 0, s |-> <<>>]

\* payload.get(key): a missing key reads as None
IsNone(v) == v.k \in {"absent", "none"}

\* Python truthiness, as used by `x or y` and `if not x`
Truthy(v) ==
    CASE v.k = "num" -> v.n # 0
      [] v.k = "str" -> v.s # <<>>
      [] v.k = "bool" -> v.n = 1
      [] OTHER -> FALSE

OrElse(a, b) == IF Truthy(a) THEN a ELSE b

\* float(v) raises ValueError on a str that is no number (the model's str
\* values are never numeric) and TypeError on None
FloatRaises(v) == v.k \notin {"num", "bool"}
Float(v) == v.n

\* str(v) of a str value; the model applies it to str values only
StrOf(v) == IF v.k = "str" THEN v.s ELSE <<"?">>

\* str.strip(): leading and trailing blanks removed
RECURSIVE LStrip(_)
LStrip(s) == IF s # <<>> /\ Head(s) = " " THEN LStrip(Tail(s)) ELSE s
RECURSIVE RStrip(_)
RStrip(s) ==
    IF s # <<>> /\ s[Len(s)] = " " THEN RStrip(SubSeq(s, 1, Len(s) - 1)) ELSE s
Strip(s) == RStrip(LStrip(s))

(***************************************************************************)
(* Identifiers.  A text is a valid UUID iff it is one token of UuidTokens. *)
(***************************************************************************)
TenantA == "tA"
TenantB == "tB"
Tenants == {TenantA, TenantB}           \* rows of the tenants table

\* X-Tenant-Id headers: none, a text that is no UUID, and UUIDs: of the
\* tenants, of the technical tenant, and of no tenant
NoHeader == "none"
BadHeader == "x"
TechTenant == "t1"                      \* DEFAULT_TECH_TENANT_ID
DefaultTenant == TenantA                \* DEFAULT_MERCEARIA_TENANT_ID
StrangerTenant == "tZ"
HeaderUuids == Tenants \cup {TechTenant, StrangerTenant}
Headers == HeaderUuids \cup {NoHeader, BadHeader}
Unresolved == "HTTP500"

\* the fallback of get_tenant_id: the default tenant, else the oldest
\* tenant that is not the technical one, else HTTP 500
FallbackTenant ==
    IF DefaultTenant \in Tenants THEN DefaultTenant
    ELSE IF Tenants \ {TechTenant} # {}
         THEN CHOOSE t \in Tenants \ {TechTenant} : TRUE
         ELSE Unresolved

\* get_tenant_id: a header that is a UUID, the technical one apart, is
\* returned as it is; any other request falls back
GetTenantId(x_tenant_id) ==
    IF x_tenant_id \in HeaderUuids /\ x_tenant_id # TechTenant
    THEN x_tenant_id
    ELSE FallbackTenant

EntityIds == {"u1", "u2"}            \* ids the clients send
GenSeq == <<"g1", "g2", "g3", "g4", "g5">>
GenIds == {GenSeq[i] : i \in DOMAIN GenSeq}   \* ids uuid.uuid4() hands out
ProductIds == {"p1", "p2"}           \* rows of pdv.produtos
UuidTokens == EntityIds \cup GenIds \cup ProductIds \cup {"p9"}
NoUuid == "NULL"                     \* Python None / SQL NULL of a UUID column

\* _parse_uuid: uuid.UUID(str(v)) guarded by try/except, None for None
ParseUuid(v) ==
    IF v.k = "str" /\ Len(v.s) = 1 /\ v.s[1] \in UuidTokens THEN v.s[1] ELSE NoUuid

(***************************************************************************)
(* pdv.produtos: read-only here.  codigo is unique over all tenants.       *)
(***************************************************************************)
Produtos ==
    [p \in ProductIds |->
        IF p = "p1"
        THEN [tenant_id |-> TenantA, codigo |-> <<"c", "1">>, nome |-> <<"x">>]
        ELSE [tenant_id |-> TenantB, codigo |-> <<"c", "2">>, nome |-> <<"y">>]]

(***************************************************************************)
(* The store.  A header table is a function from the ids of its rows to    *)
(* the rows (id is the primary key of every table, over all tenants); a    *)
(* child table is the sequence of its rows in insertion order.             *)
(***************************************************************************)
HeaderTables == {"vendas", "clientes", "dividas"}
ChildTables == {"itens_venda", "itens_divida", "pagamentos_divida"}

EmptyTable == [i \in {} |-> 0]

EmptyDb ==
    [vendas |-> EmptyTable, clientes |-> EmptyTable, dividas |-> EmptyTable,
     itens_venda |-> <<>>, itens_divida |-> <<>>, pagamentos_divida |-> <<>>]

\* uuid.uuid4(): an id no row of the store carries
FreshIds(d) ==
    GenIds \ (DOMAIN d.vendas \cup DOMAIN d.clientes \cup DOMAIN d.dividas)
Uuid4(d) ==
    GenSeq[CHOOSE i \in DOMAIN GenSeq :
              /\ GenSeq[i] \in FreshIds(d)
              /\ \A j \in 1..(i - 1) : GenSeq[j] \notin FreshIds(d)]

(***************************************************************************)
(* Unit of work of the AsyncSession: the pending writes, in order.         *)
(***************************************************************************)
InsertOp(t, i, r) == [op |-> "insert", table |-> t, id |-> i, row |-> r]
UpdateOp(t, i, r) == [op |-> "update", table |-> t, id |-> i, row |-> r]
ChildOp(t, r) == [op |-> "child", table |-> t, id |-> NoUuid, row |-> r]

\* created_at / updated_at columns: server default now() on INSERT; an
\* UPDATE leaves created_at alone
Stamped(r, t) == [x \in DOMAIN r \cup {"created_at", "updated_at"} |->
                    IF x = "updated_at" \/ x \notin DOMAIN r THEN t ELSE r[x]]
Unstamped(r) == [x \in DOMAIN r \ {"updated_at"} |-> r[x]]

\* updated_at of an UPDATE: onupdate now(), emitted only when a column changed
Touched(old, new, t) ==
    IF Unstamped(old) = Unstamped(new) THEN old ELSE Stamped(Unstamped(new), t)

PutRow(tbl, i, r) == [x \in DOMAIN tbl \cup {i} |-> IF x = i THEN r ELSE tbl[x]]

\* foreign keys of a row, checked by the database
ForeignKeysHold(d, op) ==
    CASE op.table = "itens_venda" ->
            op.row.venda_id \in DOMAIN d.vendas /\ op.row.produto_id \in ProductIds
      [] op.table = "itens_divida" ->
            op.row.divida_id \in DOMAIN d.dividas /\ op.row.produto_id \in ProductIds
      [] op.table = "pagamentos_divida" ->
            op.row.divida_id \in DOMAIN d.dividas
      [] op.table = "dividas" ->
            /\ op.row.tenant_id \in Tenants
            /\ op.row.cliente_id = NoUuid \/ op.row.cliente_id \in DOMAIN d.clientes
      [] OTHER -> op.row.tenant_id \in Tenants

\* primary key of an INSERT
PrimaryKeyFree(d, op) == op.op # "insert" \/ op.id \notin DOMAIN d[op.table]

\* one write, accepted by the database
Written(d, op, t) ==
    CASE op.op = "insert" ->
            [d EXCEPT ![op.table] = PutRow(@, op.id, Stamped(op.row, t))]
      [] op.op = "update" ->
            [d EXCEPT ![op.table] = PutRow(@, op.id, Touched(@[op.id], op.row, t))]
      [] OTHER ->
            [d EXCEPT ![op.table] = Append(@, op.row)]

\* flush: the writes of `ops` sent in order; IntegrityError on the first
\* one that breaks a constraint
RECURSIVE Flush(_, _, _)
Flush(d, ops, t) ==
    IF ops = <<>> THEN [ok |-> TRUE, db |-> d]
    ELSE IF PrimaryKeyFree(d, Head(ops)) /\ ForeignKeysHold(d, Head(ops))
         THEN Flush(Written(d, Head(ops), t), Tail(ops), t)
         ELSE [ok |-> FALSE, db |-> d]

\* a rollback that leaves the pending writes in the session
RollbackKeeps(ops) == ops

\* session.rollback(): every pending write is dropped
Rollback(ops) == <<>>

(***************************************************************************)
(* Payloads.  A payload carries every key the handlers read; a key the     *)
(* client did not send is Absent.  itens and pagamentos are lists of       *)
(* dicts.                                                                  *)
(***************************************************************************)
Payload ==
    [uuid |-> Absent, id |-> Absent, valor_total |-> Absent, total |-> Absent,
     forma_pagamento |-> Absent, observacao_cozinha |-> Absent,
     observacoes |-> Absent, nome |-> Absent, documento |-> Absent,
     telefone |-> Absent, endereco |-> Absent, ativo |-> Absent,
     id_local |-> Absent, cliente_id |-> Absent, valor_original |-> Absent,
     desconto_aplicado |-> Absent, percentual_desconto |-> Absent,
     valor_pago |-> Absent, status |-> Absent, observacao |-> Absent,
     itens |-> <<>>, pagamentos |-> <<>>]

Item ==
    [produto_id |-> Absent, produto_codigo |-> Absent, quantidade |-> Absent,
     preco_unitario |-> Absent, produto_preco_venda |-> Absent,
     subtotal |-> Absent, valor |-> Absent, forma_pagamento |-> Absent]

\* what payload.get(key) hands to a column
Got(v) == IF v.k = "absent" THEN None ELSE v

\* a lookup by id that leaves the tenant out
OwnedByAnyone(tbl, i, tenant) == i \in DOMAIN tbl

\* select(T).where(T.id == i, T.tenant_id == tenant).scalar_one_or_none()
OwnedBy(tbl, i, tenant) == i \in DOMAIN tbl /\ tbl[i].tenant_id = tenant

\* outcome of the try body of one event
Commits(ops) == [out |-> "commit", error |-> "", ops |-> ops]
Raises(e, ops) == [out |-> "raise", error |-> e, ops |-> ops]
Reports(e) == [out |-> "report", error |-> e, ops |-> <<>>]
\* an unknown entity refused instead of accepted
SkipsRefused == [out |-> "report", error |-> "unknown entity", ops |-> <<>>]

\* lines 304-306: an entity no handler knows is accepted with no effect
Skips == [out |-> "skip", error |-> "", ops |-> <<>>]

Max(a, b) == IF a >= b THEN a ELSE b
Min(a, b) == IF a <= b THEN a ELSE b

(***************************************************************************)
(* push_changes, entity "pedido" (sync.py 74-166)                          *)
(***************************************************************************)
\* select(Produto).where(codigo == str(produto_codigo), tenant_id == tenant)
ProdutoByCodigo(tenant, codigo) ==
    LET hit == {q \in ProductIds : Produtos[q].codigo = StrOf(codigo)
                                   /\ Produtos[q].tenant_id = tenant}
    IN IF hit = {} THEN NoUuid ELSE CHOOSE q \in hit : TRUE

\* lines 119-144: the product of one item, NoUuid when the item is skipped
ResolveProduto(tenant, it) ==
    LET byId == IF Truthy(it.produto_id) THEN ParseUuid(it.produto_id) ELSE NoUuid
    IN IF byId = NoUuid /\ Truthy(it.produto_codigo)
       THEN ProdutoByCodigo(tenant, it.produto_codigo)
       ELSE byId

\* lines 146-148: a conversion of the item raises ValueError
ItemVendaRaises(it) ==
    \/ FloatRaises(OrElse(it.quantidade, Num(1)))
    \/ FloatRaises(OrElse(OrElse(it.preco_unitario, it.produto_preco_venda), Num(0)))
    \/ /\ Truthy(it.subtotal)
       /\ FloatRaises(it.subtotal)

\* lines 146-162
ItemVendaRow(venda_id, produto_uuid, it) ==
    LET quantidade == Float(OrElse(it.quantidade, Num(1)))
        preco_unitario ==
            Float(OrElse(OrElse(it.preco_unitario, it.produto_preco_venda), Num(0)))
        subtotal == IF Truthy(it.subtotal) THEN Float(it.subtotal)
                    ELSE quantidade * preco_unitario
    IN [venda_id |-> venda_id, produto_id |-> produto_uuid,
        quantidade |-> Max(1, quantidade), preco_unitario |-> preco_unitario,
        subtotal |-> subtotal]

\* lines 116-162: the loop over the items; acc holds the rows added so far
RECURSIVE PedidoItens(_, _, _, _)
PedidoItens(tenant, venda_id, itens, acc) ==
    IF itens = <<>> THEN Commits(acc)
    ELSE LET it == Head(itens)
             produto_uuid == ResolveProduto(tenant, it)
         IN IF produto_uuid = NoUuid
            THEN PedidoItens(tenant, venda_id, Tail(itens), acc)
            ELSE IF ItemVendaRaises(it)
            THEN Raises("ValueError", acc)
            ELSE PedidoItens(tenant, venda_id, Tail(itens),
                     Append(acc, ChildOp("itens_venda",
                                    ItemVendaRow(venda_id, produto_uuid, it))))

\* lines 94-105
NewVenda(tenant, p) ==
    [tenant_id |-> tenant,
     total |-> Float(OrElse(OrElse(p.valor_total, p.total), Num(0))),
     desconto |-> 0,
     forma_pagamento |-> StrOf(OrElse(p.forma_pagamento, Str(<<"dinheiro">>))),
     observacoes |-> Got(OrElse(p.observacao_cozinha, p.observacoes)),
     cancelada |-> FALSE]

PedidoUuid(d, p) ==
    IF ParseUuid(p.uuid) # NoUuid THEN ParseUuid(p.uuid) ELSE Uuid4(d)

\* a handler that writes the payload over the header of an order it finds
HandlePedidoOverwrites(d, tenant, p) ==
    IF ~Truthy(p.uuid) THEN Reports("missing uuid")
    ELSE LET venda_uuid == PedidoUuid(d, p)
             existing == OwnedBy(d.vendas, venda_uuid, tenant)
             header == IF existing
                       THEN <<UpdateOp("vendas", venda_uuid, NewVenda(tenant, p))>>
                       ELSE <<InsertOp("vendas", venda_uuid, NewVenda(tenant, p))>>
         IN IF FloatRaises(OrElse(OrElse(p.valor_total, p.total), Num(0)))
            THEN Raises("ValueError", <<>>)
            ELSE IF ~existing /\ ~Flush(d, header, 0).ok
            THEN Raises("IntegrityError", header)
            ELSE PedidoItens(tenant, venda_uuid, p.itens, header)

\* lines 74-166
HandlePedido(d, tenant, p) ==
    IF ~Truthy(p.uuid) THEN Reports("missing uuid")
    ELSE LET venda_uuid == PedidoUuid(d, p)
             existing == OwnedBy(d.vendas, venda_uuid, tenant)
             header == IF existing THEN <<>>
                       ELSE <<InsertOp("vendas", venda_uuid, NewVenda(tenant, p))>>
         IN IF FloatRaises(OrElse(OrElse(p.valor_total, p.total), Num(0)))
            THEN Raises("ValueError", <<>>)
            ELSE IF ~existing /\ ~Flush(d, header, 0).ok
            THEN Raises("IntegrityError", header)       \* db.flush(), line 107
            ELSE PedidoItens(tenant, venda_uuid, p.itens, header)

(***************************************************************************)
(* push_changes, entity "cliente" (sync.py 168-204)                        *)
(***************************************************************************)
ClienteId(d, p) ==
    IF ParseUuid(OrElse(p.id, p.uuid)) # NoUuid
    THEN ParseUuid(OrElse(p.id, p.uuid)) ELSE Uuid4(d)

\* lines 179-187
NewCliente(tenant, p) ==
    LET nome == Strip(StrOf(OrElse(p.nome, Str(<<>>))))
    IN [tenant_id |-> tenant,
        nome |-> IF nome # <<>> THEN nome ELSE <<"Cliente">>,
        documento |-> Got(p.documento),
        telefone |-> Got(p.telefone),
        endereco |-> Got(p.endereco),
        ativo |-> IF p.ativo.k = "absent" THEN TRUE ELSE Truthy(p.ativo)]

\* lines 191-200
UpdatedCliente(row, p) ==
    [row EXCEPT
       !.nome = IF IsNone(p.nome) THEN @
                ELSE IF Truthy(p.nome) THEN StrOf(p.nome) ELSE @,
       !.documento = IF IsNone(p.documento) THEN @ ELSE p.documento,
       !.telefone = IF IsNone(p.telefone) THEN @ ELSE p.telefone,
       !.endereco = IF IsNone(p.endereco) THEN @ ELSE p.endereco,
       !.ativo = IF IsNone(p.ativo) THEN @ ELSE Truthy(p.ativo)]

HandleCliente(d, tenant, p) ==
    LET cli_id == ClienteId(d, p)
        existing == OwnedBy(d.clientes, cli_id, tenant)
    IN IF existing
       THEN Commits(<<UpdateOp("clientes", cli_id,
                               UpdatedCliente(d.clientes[cli_id], p))>>)
       ELSE Commits(<<InsertOp("clientes", cli_id, NewCliente(tenant, p))>>)

(***************************************************************************)
(* push_changes, entity "divida" (sync.py 206-302)                         *)
(***************************************************************************)
DividaId(d, p) == IF ParseUuid(p.id) # NoUuid THEN ParseUuid(p.id) ELSE Uuid4(d)

DividaFloats == {"valor_total", "valor_original", "desconto_aplicado",
                 "percentual_desconto", "valor_pago"}

\* float(payload.get(f) or 0)
FloatOr0(v) == Float(OrElse(v, Num(0)))
FloatOr0Raises(v) == FloatRaises(OrElse(v, Num(0)))

\* lines 222-235
NewDivida(tenant, p) ==
    [tenant_id |-> tenant,
     id_local |-> Got(p.id_local),
     cliente_id |-> ParseUuid(p.cliente_id),
     valor_total |-> FloatOr0(p.valor_total),
     valor_original |-> FloatOr0(p.valor_original),
     desconto_aplicado |-> FloatOr0(p.desconto_aplicado),
     percentual_desconto |-> FloatOr0(p.percentual_desconto),
     valor_pago |-> FloatOr0(p.valor_pago),
     status |-> StrOf(OrElse(p.status, Str(<<"Pendente">>))),
     observacao |-> Got(p.observacao)]

\* an update that adds the payments of the payload to the paid amount
UpdatedDividaCounting(row, p) ==
    [row EXCEPT
       !.valor_total = IF IsNone(p.valor_total) THEN @ ELSE FloatOr0(p.valor_total),
       !.valor_pago = (IF IsNone(p.valor_pago) THEN @ ELSE FloatOr0(p.valor_pago))
                      + (IF p.pagamentos = <<>> THEN 0
                         ELSE FloatOr0(p.pagamentos[1].valor)),
       !.status = IF IsNone(p.status) THEN @
                  ELSE IF Truthy(p.status) THEN StrOf(p.status) ELSE @]

\* lines 239-258
UpdatedDivida(row, p) ==
    [row EXCEPT
       !.id_local = IF IsNone(p.id_local) THEN @ ELSE p.id_local,
       !.cliente_id = IF ParseUuid(p.cliente_id) = NoUuid THEN @
                      ELSE ParseUuid(p.cliente_id),
       !.valor_total = IF IsNone(p.valor_total) THEN @ ELSE FloatOr0(p.valor_total),
       !.valor_original =
            IF IsNone(p.valor_original) THEN @ ELSE FloatOr0(p.valor_original),
       !.desconto_aplicado =
            IF IsNone(p.desconto_aplicado) THEN @ ELSE FloatOr0(p.desconto_aplicado),
       !.percentual_desconto =
            IF IsNone(p.percentual_desconto) THEN @
            ELSE FloatOr0(p.percentual_desconto),
       !.valor_pago = IF IsNone(p.valor_pago) THEN @ ELSE FloatOr0(p.valor_pago),
       !.status = IF IsNone(p.status) THEN @
                  ELSE IF Truthy(p.status) THEN StrOf(p.status) ELSE @,
       !.observacao = IF IsNone(p.observacao) THEN @ ELSE p.observacao]

\* a float() of the header raises ValueError (on create every field is
\* converted, on update the fields that are not None)
DividaHeaderRaises(p) == \E f \in DividaFloats : FloatOr0Raises(p[f])

\* lines 263-284: items of the debt; an item whose produto_id is no UUID or
\* no product of the tenant is skipped
RECURSIVE DividaItens(_, _, _, _)
DividaItens(tenant, div_id, itens, acc) ==
    IF itens = <<>> THEN Commits(acc)
    ELSE LET it == Head(itens)
             prod_uuid == ParseUuid(it.produto_id)
         IN IF prod_uuid = NoUuid
               \/ prod_uuid \notin ProductIds
               \/ Produtos[prod_uuid].tenant_id # tenant
            THEN DividaItens(tenant, div_id, Tail(itens), acc)
            ELSE IF \/ FloatOr0Raises(it.quantidade)
                    \/ FloatOr0Raises(it.preco_unitario)
                    \/ FloatOr0Raises(it.subtotal)
            THEN Raises("ValueError", acc)
            ELSE DividaItens(tenant, div_id, Tail(itens),
                     Append(acc, ChildOp("itens_divida",
                         [divida_id |-> div_id, produto_id |-> prod_uuid,
                          quantidade |-> FloatOr0(it.quantidade),
                          preco_unitario |-> FloatOr0(it.preco_unitario),
                          subtotal |-> FloatOr0(it.subtotal)])))

\* lines 286-298: payments of the debt
RECURSIVE DividaPagamentos(_, _, _)
DividaPagamentos(div_id, pagamentos, acc) ==
    IF pagamentos = <<>> THEN Commits(acc)
    ELSE LET pg == Head(pagamentos)
         IN IF FloatOr0Raises(pg.valor)
            THEN Raises("ValueError", acc)
            ELSE DividaPagamentos(div_id, Tail(pagamentos),
                     Append(acc, ChildOp("pagamentos_divida",
                         [divida_id |-> div_id, valor |-> FloatOr0(pg.valor),
                          forma_pagamento |->
                              StrOf(OrElse(pg.forma_pagamento, Str(<<>>)))])))

HandleDivida(d, tenant, p) ==
    LET div_id == DividaId(d, p)
        existing == OwnedBy(d.dividas, div_id, tenant)
        header ==
            IF existing
            THEN <<UpdateOp("dividas", div_id, UpdatedDivida(d.dividas[div_id], p))>>
            ELSE <<InsertOp("dividas", div_id, NewDivida(tenant, p))>>
        itens == DividaItens(tenant, div_id, p.itens, header)
    IN IF DividaHeaderRaises(p) THEN Raises("ValueError", <<>>)
       ELSE IF ~existing /\ ~Flush(d, header, 0).ok
       THEN Raises("IntegrityError", header)            \* db.flush(), line 237
       ELSE IF itens.out = "raise" THEN itens
       ELSE DividaPagamentos(div_id, p.pagamentos, itens.ops)

(***************************************************************************)
(* push_changes: one pass of the loop over the events (sync.py 69-313)     *)
(***************************************************************************)
\* str(ev.entity or "").lower()
Lower(e) ==
    CASE e = "PEDIDO" -> "pedido"
      [] e = "Cliente" -> "cliente"
      [] OTHER -> e

\* the try body up to its commit
Dispatch(d, tenant, ev) ==
    CASE Lower(ev.entity) = "pedido" -> HandlePedido(d, tenant, ev.payload)
      [] Lower(ev.entity) = "cliente" -> HandleCliente(d, tenant, ev.payload)
      [] Lower(ev.entity) = "divida" -> HandleDivida(d, tenant, ev.payload)
      [] OTHER -> Skips

Result(ev, ok, error) == [outbox_id |-> ev.outbox_id, ok |-> ok, error |-> error]

\* results.append of a handled event (lines 165, 203, 301, 305)
Succeeded(ev) == <<Result(ev, TRUE, "")>>

\* results.append of the early `continue` (line 77)
Reported(ev, error) == <<Result(ev, FALSE, error)>>

\* an except clause that appends nothing
CaughtSilently(ev, error) == <<>>

\* except Exception as e: rollback, results.append (lines 308-313)
Caught(ev, error) == <<Result(ev, FALSE, error)>>

\* One event against store d with the writes `pending` in the session at
\* time t: the entry appended to results, the store and the session after.
ApplyEvent(d, pending, tenant, ev, t) ==
    LET r == Dispatch(d, tenant, ev)
        done == Flush(d, pending \o r.ops, t)            \* db.commit()
    IN CASE r.out = "commit" /\ done.ok ->
              [result |-> Succeeded(ev), db |-> done.db, session |-> <<>>]
         [] r.out = "commit" /\ ~done.ok ->
              [result |-> Caught(ev, "IntegrityError"), db |-> d,
               session |-> Rollback(pending \o r.ops)]
         [] r.out = "raise" ->
              [result |-> Caught(ev, r.error), db |-> d,
               session |-> Rollback(pending \o r.ops)]
         [] r.out = "report" ->
              [result |-> Reported(ev, r.error), db |-> d, session |-> pending]
         [] OTHER ->
              [result |-> Succeeded(ev), db |-> d, session |-> pending]

(***************************************************************************)
(* pull_changes (sync.py 317-581)                                          *)
(***************************************************************************)
\* the text of a cursor: Optional[str]
NoSince == [fmt |-> "none", t |-> 0]             \* parameter not given / null
Isoformat(t) == [fmt |-> "iso", t |-> t]         \* datetime.isoformat(), "+00:00"
IsoZ(t) == [fmt |-> "isoZ", t |-> t]             \* the same instant, "Z" suffix
BadSince == [fmt |-> "bad", t |-> 0]             \* a text that is no datetime

NoTime == -1                                     \* since_dt is None

\* _parse_since, lines 327-336
ParseSince(v) == IF v.fmt \in {"iso", "isoZ"} THEN v.t ELSE NoTime

\* limit_i, line 339
DefaultLimit == 500
MaxLimit == 1000
LimitIUnclamped(limit) == Min(IF limit = 0 THEN DefaultLimit ELSE limit, MaxLimit)
LimitI(limit) == Max(1, Min(IF limit = 0 THEN DefaultLimit ELSE limit, MaxLimit))

\* ids of the rows a query selects: tenant filter, updated_at > since_dt,
\* and for vendas cancelada = false
SelectedWithCancelled(d, table, tenant, since_dt) ==
    {i \in DOMAIN d[table] :
        /\ d[table][i].tenant_id = tenant
        /\ since_dt # NoTime => d[table][i].updated_at > since_dt}

Selected(d, table, tenant, since_dt) ==
    {i \in DOMAIN d[table] :
        /\ d[table][i].tenant_id = tenant
        /\ since_dt # NoTime => d[table][i].updated_at > since_dt
        /\ table = "vendas" => ~d[table][i].cancelada}

\* order_by(updated_at.asc()).limit(limit_i): the pages the database may
\* return; rows of equal updated_at come in any order
Pages(tbl, ids, limit_i) ==
    LET k == Min(limit_i, Cardinality(ids))
    IN {pg \in [1..k -> ids] :
          /\ \A a, b \in 1..k : a < b =>
                /\ pg[a] # pg[b]
                /\ tbl[pg[a]].updated_at <= tbl[pg[b]].updated_at
          /\ \A x \in ids : (\A a \in 1..k : pg[a] # x) =>
                \A a \in 1..k : tbl[pg[a]].updated_at <= tbl[x].updated_at}

\* lines 384-392, 453-460, 514-521: `if iso: max_updated = iso` over the
\* rows of one page, in order
RECURSIVE MaxUpdated(_, _, _)
MaxUpdated(max_updated, tbl, pg) ==
    IF pg = <<>> THEN max_updated
    ELSE MaxUpdated(Isoformat(tbl[Head(pg)].updated_at), tbl, Tail(pg))

\* rows of a child table owned by header `i`
ChildrenOf(rows, key, i) == SelectSeq(rows, LAMBDA r : r[key] = i)

\* lines 360-379: produtos_map, filtered by tenant
ProdutosMap(tenant) == {q \in ProductIds : Produtos[q].tenant_id = tenant}

\* lines 394-414, 523-538: one item with its product snapshot
ItemOut(tenant, it) ==
    [produto_id |-> it.produto_id,
     produto_codigo |-> IF it.produto_id \in ProdutosMap(tenant)
                        THEN Produtos[it.produto_id].codigo ELSE <<>>,
     produto_nome |-> IF it.produto_id \in ProdutosMap(tenant)
                      THEN Produtos[it.produto_id].nome ELSE <<>>,
     subtotal |-> it.subtotal]

ItensOut(tenant, rows) == [x \in DOMAIN rows |-> ItemOut(tenant, rows[x])]

\* lines 416-435
PedidoOut(d, tenant, i) ==
    [uuid |-> i, updated_at |-> Isoformat(d.vendas[i].updated_at),
     valor_total |-> d.vendas[i].total,
     observacao_cozinha |-> d.vendas[i].observacoes,
     itens |-> ItensOut(tenant, ChildrenOf(d.itens_venda, "venda_id", i))]

\* lines 461-472
ClienteOut(d, i) ==
    [id |-> i, updated_at |-> Isoformat(d.clientes[i].updated_at),
     nome |-> d.clientes[i].nome, documento |-> d.clientes[i].documento,
     telefone |-> d.clientes[i].telefone, endereco |-> d.clientes[i].endereco,
     ativo |-> d.clientes[i].ativo]

\* lines 551-570
DividaOut(d, tenant, i) ==
    [id |-> i, updated_at |-> Isoformat(d.dividas[i].updated_at),
     valor_total |-> d.dividas[i].valor_total,
     valor_pago |-> d.dividas[i].valor_pago,
     status |-> d.dividas[i].status,
     itens |-> ItensOut(tenant, ChildrenOf(d.itens_divida, "divida_id", i)),
     pagamentos |-> ChildrenOf(d.pagamentos_divida, "divida_id", i)]

\* the response built from the three pages
Response(d, tenant, since, limit, pv, pc, pd) ==
    [pedidos |-> [x \in DOMAIN pv |-> PedidoOut(d, tenant, pv[x])],
     clientes |-> [x \in DOMAIN pc |-> ClienteOut(d, pc[x])],
     dividas |-> [x \in DOMAIN pd |-> DividaOut(d, tenant, pd[x])],
     next_since |->
        MaxUpdated(MaxUpdated(MaxUpdated(NoSince, d.vendas, pv), d.clientes, pc),
                   d.dividas, pd),
     since |-> since,
     limit |-> LimitI(limit)]

\* every response pull_changes may give on store d
PullResponses(d, tenant, since, limit) ==
    LET since_dt == ParseSince(since)
        limit_i == LimitI(limit)
    IN {Response(d, tenant, since, limit, pv, pc, pd) :
          pv \in Pages(d.vendas, Selected(d, "vendas", tenant, since_dt), limit_i),
          pc \in Pages(d.clientes, Selected(d, "clientes", tenant, since_dt), limit_i),
          pd \in Pages(d.dividas, Selected(d, "dividas", tenant, since_dt), limit_i)}

(***************************************************************************)
(* Inputs of the model.                                                    *)
(***************************************************************************)
Uuid(tok) == Str(<<tok>>)

ItemById(tok) == [Item EXCEPT !.produto_id = Uuid(tok), !.quantidade = Num(2),
                              !.preco_unitario = Num(10), !.subtotal = Num(20)]
ItemByCodigo(c) == [Item EXCEPT !.produto_codigo = Str(c), !.quantidade = Num(2),
                                !.preco_unitario = Num(10), !.subtotal = Num(20)]

Pedido(tok, itens) ==
    [entity |-> "pedido",
     payload |-> [Payload EXCEPT !.uuid = Uuid(tok), !.valor_total = Num(20),
                                 !.itens = itens]]
Cliente(tok, nome) ==
    [entity |-> "cliente",
     payload |-> [Payload EXCEPT !.id = Uuid(tok), !.nome = Str(nome)]]
Divida(tok, total, pagamentos) ==
    [entity |-> "divida",
     payload |-> [Payload EXCEPT !.id = Uuid(tok), !.valor_total = Num(total),
                                 !.pagamentos = pagamentos]]
Pagamento(v) == [Item EXCEPT !.valor = Num(v), !.forma_pagamento = Str(<<"m">>)]

\* events of the push specification: every outcome of the dispatch loop
PushEvents ==
    { Pedido("u1", <<ItemById("p1")>>),                  \* a product of tenant A
      Pedido("u1", <<ItemByCodigo(<<"c", "x">>)>>),      \* no such codigo
      [entity |-> "PEDIDO",                              \* a UUID of no product
       payload |-> Pedido("u1", <<ItemById("p9")>>).payload],
      [entity |-> "pedido", payload |-> Payload],        \* no uuid
      Cliente("u1", <<" ", "a">>),
      Divida("u1", 50, <<Pagamento(50)>>),
      [entity |-> "produto", payload |-> Payload] }

\* events of the upsert specification: creations, partial updates, stale
\* and repeated pushes, missing and malformed ids
UpsertEvents ==
    { [entity |-> "cliente",
       payload |-> [Payload EXCEPT !.id = Uuid("u1"), !.nome = Str(<<"a">>),
                                   !.telefone = Str(<<"1">>)]],
      [entity |-> "cliente",                             \* telefone: null
       payload |-> [Payload EXCEPT !.id = Uuid("u1"), !.telefone = None]],
      [entity |-> "cliente",                             \* no id
       payload |-> [Payload EXCEPT !.nome = Str(<<"a">>)]],
      [entity |-> "divida",
       payload |-> [Payload EXCEPT !.id = Uuid("u1"), !.valor_total = Num(50),
                                   !.valor_pago = Num(50),
                                   !.status = Str(<<"Quitado">>),
                                   !.pagamentos = <<Pagamento(50)>>]],
      [entity |-> "divida",                              \* a stale copy
       payload |-> [Payload EXCEPT !.id = Uuid("u1"), !.valor_pago = Num(20),
                                   !.status = Str(<<"Pendente">>)]],
      Divida("u2", 50, <<Pagamento(50)>>),
      Pedido("u1", <<ItemById("p1")>>),
      [entity |-> "pedido",                              \* another total
       payload |-> [Payload EXCEPT !.uuid = Uuid("u1"), !.valor_total = Num(99),
                                   !.forma_pagamento = Str(<<"cartao">>),
                                   !.observacoes = Str(<<"o">>),
                                   !.itens = <<ItemById("p1")>>]],
      [entity |-> "pedido",                              \* uuid is no UUID
       payload |-> [Payload EXCEPT !.uuid = Str(<<"z", "z">>)]] }

\* amounts a payment request carries
Valores == {0, 30, 50}

\* events of the feed specification: plain creations and updates
FeedEvents ==
    { Pedido("u1", <<>>), Pedido("u2", <<>>),
      Cliente("u1", <<"a">>), Cliente("u1", <<"b">>),
      Divida("u1", 50, <<>>), Divida("u2", 50, <<>>) }

\* outbox ids of a batch, by position
OutboxId(i) == 100 - i

Numbered(e, i) ==
    [outbox_id |-> OutboxId(i), entity |-> e.entity, payload |-> e.payload]

(***************************************************************************)
(* State.                                                                  *)
(***************************************************************************)
VARIABLES
    db,        \* the committed store
    now,       \* the server clock
    session,   \* pending writes of the AsyncSession of the push request
    req,       \* the push request being served and its response
    handled,   \* events and payments handled so far, over all requests
    chain,     \* the pull calls of one client, each from the cursor of the one
               \* before: the last response, what the calls delivered, and
               \* whether the store changed since the first (quiet) and the
               \* last (still) call, or between the last two (calm)
    lote,      \* the last POST /api/dividas/sync: its batch, its response and
               \* the store before and after it
    txs,       \* requests served at the same time, each with a session of
               \* its own: what each has read and whether it has committed
    scan       \* a pull on its way through its three queries

vars == <<db, now, session, req, handled, chain, lote, txs, scan>>

NoResponse ==
    [pedidos |-> <<>>, clientes |-> <<>>, dividas |-> <<>>,
     next_since |-> NoSince, since |-> NoSince, limit |-> 1]

NoRequest ==
    [phase |-> "idle", x_tenant_id |-> NoHeader, tenant_id |-> TenantA,
     events |-> <<>>, results |-> <<>>, trail |-> <<>>]

NoChain ==
    [n |-> 0, x_tenant_id |-> NoHeader, tenant_id |-> TenantA, limit |-> 1,
     first |-> NoSince,
     resp |-> NoResponse, earlier |-> {}, delivered |-> {}, quiet |-> TRUE,
     still |-> TRUE, calm |-> TRUE, prev_next |-> NoSince]

NoLote ==
    [tenant_id |-> TenantA, data |-> <<>>, pre |-> EmptyDb, post |-> EmptyDb,
     created |-> 0, skipped |-> 0, errors |-> <<>>]

NoTxs == [calls |-> <<>>, commits |-> <<>>, base |-> EmptyDb]

NoScan ==
    [step |-> 0, tenant_id |-> TenantA, since |-> NoSince, limit |-> 1,
     pedidos |-> <<>>, clientes |-> <<>>, dividas |-> <<>>,
     max_updated |-> NoSince, resp |-> NoResponse, at |-> EmptyDb]

Init ==
    /\ db = EmptyDb
    /\ now = 0
    /\ session = <<>>
    /\ req = NoRequest
    /\ handled = 0
    /\ chain = NoChain
    /\ lote = NoLote
    /\ txs = NoTxs
    /\ scan = NoScan

(***************************************************************************)
(* POST /api/sync/push                                                     *)
(***************************************************************************)
\* The request arrives with its X-Tenant-Id header: tenant resolved,
\* results = [].  The batch is read as the loop reaches its events:
\* req.events holds the ones read so far.
PushBegin(budget, headers) ==
    /\ req.phase # "running"
    /\ handled < budget
    /\ \E h \in headers :
          /\ GetTenantId(h) # Unresolved
          /\ req' = [phase |-> "running", x_tenant_id |-> h,
                     tenant_id |-> GetTenantId(h), events |-> <<>>,
                     results |-> <<>>, trail |-> <<>>]
    /\ session' = <<>>
    /\ UNCHANGED <<db, now, handled, chain>>
    /\ UNCHANGED <<lote, txs, scan>>

\* one pass of `for ev in events`, over the next event of the batch
PushEvent(evs, budget) ==
    /\ req.phase = "running"
    /\ Len(req.events) < MaxBatch
    /\ handled < budget
    /\ \E e \in evs :
         LET ev == Numbered(e, Len(req.events) + 1)
             a == ApplyEvent(db, session, req.tenant_id, ev, now)
         IN /\ db' = a.db
            /\ session' = a.session
            /\ req' = [req EXCEPT
                         !.events = Append(@, ev),
                         !.results = @ \o a.result,
                         !.trail = Append(@, [pre |-> db, t |-> now, post |-> a.db])]
            /\ chain' = [chain EXCEPT !.quiet = @ /\ a.db = db,
                                      !.still = @ /\ a.db = db]
    /\ handled' = handled + 1
    /\ UNCHANGED now
    /\ UNCHANGED <<lote, txs, scan>>

\* the batch is over: return {"results": results}; the session is closed
PushReturn ==
    /\ req.phase = "running"
    /\ req' = [req EXCEPT !.phase = "returned"]
    /\ session' = <<>>
    /\ UNCHANGED <<db, now, handled, chain>>
    /\ UNCHANGED <<lote, txs, scan>>

(***************************************************************************)
(* GET /api/sync/pull                                                      *)
(***************************************************************************)
\* what a response delivers: (table, id, updated_at)
Delivered(resp) ==
    {<<"vendas", resp.pedidos[x].uuid, resp.pedidos[x].updated_at.t>> :
        x \in DOMAIN resp.pedidos}
    \cup {<<"clientes", resp.clientes[x].id, resp.clientes[x].updated_at.t>> :
        x \in DOMAIN resp.clientes}
    \cup {<<"dividas", resp.dividas[x].id, resp.dividas[x].updated_at.t>> :
        x \in DOMAIN resp.dividas}

\* a client calls pull with a since and a limit of its own
PullFirst(sinces, limits, headers) ==
    /\ \E h \in headers, since \in sinces, limit \in limits :
         /\ GetTenantId(h) # Unresolved
         /\ \E resp \in PullResponses(db, GetTenantId(h), since, limit) :
            chain' = [n |-> 1, x_tenant_id |-> h, tenant_id |-> GetTenantId(h),
                      limit |-> limit,
                      first |-> since, resp |-> resp, earlier |-> {},
                      delivered |-> Delivered(resp), quiet |-> TRUE,
                      still |-> TRUE, calm |-> TRUE, prev_next |-> NoSince]
    /\ UNCHANGED <<db, now, session, req, handled>>
    /\ UNCHANGED <<lote, txs, scan>>

\* the client calls pull again with since = the next_since it was given
PullNext ==
    /\ chain.n \in 1..(MaxPulls - 1)
    /\ \E resp \in PullResponses(db, chain.tenant_id, chain.resp.next_since,
                                 chain.limit) :
          chain' = [chain EXCEPT
                      !.n = @ + 1, !.resp = resp,
                      !.earlier = chain.delivered,
                      !.delivered = @ \cup Delivered(resp),
                      !.still = TRUE, !.calm = chain.still,
                      !.prev_next = chain.resp.next_since]
    /\ UNCHANGED <<db, now, session, req, handled>>
    /\ UNCHANGED <<lote, txs, scan>>

(***************************************************************************)
(* POST /api/dividas/{divida_id}/pagamentos                                *)
(***************************************************************************)
\* amounts are in hundredths: the 0.01 of the status test
Epsilon == 1

\* dividas.py 352-358: the debt after a payment of `valor`
PagamentoRegistrado(divida, valor) ==
    LET novo_valor_pago == divida.valor_pago + valor
    IN [divida EXCEPT
          !.valor_pago = novo_valor_pago,
          !.status = IF novo_valor_pago >= divida.valor_total - Epsilon
                     THEN <<"Quitado">> ELSE <<"Parcial">>]

\* registrar_pagamento_divida, a request of its own with its own session:
\* HTTP 400 on valor <= 0 and on a bad id, 404 when the tenant has no such
\* debt; else the payment row and the new aggregates, committed together
RegistrarPagamento(headers, valores, budget) ==
    /\ handled < budget
    /\ \E h \in headers, divida_id \in EntityIds, valor \in valores :
         LET tenant_id == GetTenantId(h)
             pagamento == [divida_id |-> divida_id, valor |-> valor,
                           forma_pagamento |-> <<"m">>]
         IN /\ tenant_id # Unresolved
            /\ valor > 0
            /\ OwnedBy(db.dividas, divida_id, tenant_id)
            /\ LET done == Flush(db,
                               <<ChildOp("pagamentos_divida", pagamento),
                                 UpdateOp("dividas", divida_id,
                                     PagamentoRegistrado(db.dividas[divida_id],
                                                         valor))>>, now)
               IN /\ done.ok
                  /\ db' = done.db
    /\ handled' = handled + 1
    /\ chain' = [chain EXCEPT !.quiet = FALSE, !.still = FALSE]
    /\ UNCHANGED <<now, session, req>>
    /\ UNCHANGED <<lote, txs, scan>>

(***************************************************************************)
(* POST /api/dividas/sync (dividas.py 159-276)                             *)
(***************************************************************************)
\* a record of payload.data: DividaCreate
Registro(id_local, itens) ==
    [id_local |-> id_local, cliente_id |-> None, desconto_aplicado |-> 0,
     percentual_desconto |-> 0, observacao |-> None, itens |-> itens]

\* lines 181-187: the debts of the tenant with that id_local, as the
\* session sees them
ComIdLocal(view, tenant, id_local) ==
    {i \in DOMAIN view.dividas :
        /\ view.dividas[i].tenant_id = tenant
        /\ view.dividas[i].id_local = id_local}

RECURSIVE SomaSubtotal(_)
SomaSubtotal(itens) ==
    IF itens = <<>> THEN 0 ELSE Head(itens).subtotal.n + SomaSubtotal(Tail(itens))

\* lines 199-217
NovaDivida(tenant, item) ==
    LET valor_original == SomaSubtotal(item.itens)
        desconto_aplicado ==
            IF item.percentual_desconto > 0
            THEN (valor_original * item.percentual_desconto) \div 100
            ELSE item.desconto_aplicado
    IN [tenant_id |-> tenant,
        id_local |-> item.id_local,
        cliente_id |-> ParseUuid(item.cliente_id),
        valor_total |-> Max(0, valor_original - desconto_aplicado),
        valor_original |-> valor_original,
        desconto_aplicado |-> desconto_aplicado,
        percentual_desconto |-> item.percentual_desconto,
        valor_pago |-> 0,
        status |-> <<"Pendente">>,
        observacao |-> item.observacao]

\* lines 223-245: the items of the record; HTTP 400 on a produto_id that is
\* no UUID or no product of the tenant
RECURSIVE SyncItens(_, _, _, _)
SyncItens(tenant, div_id, itens, acc) ==
    IF itens = <<>> THEN Commits(acc)
    ELSE LET it == Head(itens)
             prod_uuid == ParseUuid(it.produto_id)
         IN IF prod_uuid = NoUuid
            THEN Raises("HTTP400", acc)
            ELSE IF prod_uuid \notin ProductIds
                    \/ Produtos[prod_uuid].tenant_id # tenant
            THEN Raises("HTTP400", acc)
            ELSE SyncItens(tenant, div_id, Tail(itens),
                     Append(acc, ChildOp("itens_divida",
                         [divida_id |-> div_id, produto_id |-> prod_uuid,
                          quantidade |-> it.quantidade.n,
                          preco_unitario |-> it.preco_unitario.n,
                          subtotal |-> it.subtotal.n])))

\* lines 248-262: the except branches: the error is noted and the session
\* rolled back: the transaction is over, and what it had flushed with it
Failed(d, st, idx) ==
    [st EXCEPT !.view = d, !.pending = Rollback(@), !.errors = Append(@, idx)]

\* one pass of `for idx, item in enumerate(payload.data)` over store d;
\* st.view is the store as the transaction sees it, st.pending the writes
\* not yet flushed
SyncRecord(d, tenant, item, idx, st, t) ==
    LET same == ComIdLocal(st.view, tenant, item.id_local)
        div_id == Uuid4(st.view)
        flushed == Flush(st.view,
                         Append(st.pending,
                                InsertOp("dividas", div_id, NovaDivida(tenant, item))),
                         t)
        itens == SyncItens(tenant, div_id, item.itens, <<>>)
    IN IF ~IsNone(item.id_local) /\ Cardinality(same) > 1
       THEN Failed(d, st, idx)                      \* MultipleResultsFound
       ELSE IF ~IsNone(item.id_local) /\ same # {}
       THEN [st EXCEPT !.skipped = @ + 1]
       ELSE IF item.itens = <<>> THEN Failed(d, st, idx)
       ELSE IF ~flushed.ok THEN Failed(d, st, idx)
       ELSE IF itens.out = "raise" THEN Failed(d, st, idx)
       ELSE [st EXCEPT !.view = flushed.db, !.pending = itens.ops,
                       !.created = @ + 1]

RECURSIVE SyncLoop(_, _, _, _, _, _)
SyncLoop(d, tenant, data, idx, st, t) ==
    IF idx > Len(data) THEN st
    ELSE SyncLoop(d, tenant, data, idx + 1,
                  SyncRecord(d, tenant, data[idx], idx, st, t), t)

\* sync_dividas: the loop over payload.data, then one commit
SyncDividas(headers, lotes, budget) ==
    /\ handled < budget
    /\ \E h \in headers, data \in lotes :
         LET tenant_id == GetTenantId(h)
             st == SyncLoop(db, tenant_id, data, 1,
                            [view |-> db, pending |-> <<>>, created |-> 0,
                             skipped |-> 0, errors |-> <<>>], now)
             done == Flush(st.view, st.pending, now)
         IN /\ tenant_id # Unresolved
            /\ data # <<>>
            /\ Cardinality(FreshIds(db)) >= Len(data)
            /\ done.ok
            /\ db' = done.db
            /\ lote' = [tenant_id |-> tenant_id, data |-> data, pre |-> db,
                        post |-> done.db, created |-> st.created,
                        skipped |-> st.skipped, errors |-> st.errors]
    /\ handled' = handled + 1
    /\ UNCHANGED <<now, session, req, chain, txs, scan>>

(***************************************************************************)
(* Requests served at the same time.  Each has a session of its own: it    *)
(* selects the row it works on, changes its copy, and commits.  Under the  *)
(* READ COMMITTED default of the database the UPDATE of a commit acts on   *)
(* the row as it stands when the commit runs.                              *)
(***************************************************************************)
\* the columns the unit of work sends in the UPDATE of a row it loaded as
\* `loaded` and holds as `held`: those whose value is no longer the loaded
\* one
Dirty(loaded, held) ==
    {c \in DOMAIN held \ {"created_at", "updated_at"} : held[c] # loaded[c]}

\* the row after that UPDATE
UpdateColumns(current, loaded, held, t) ==
    IF Dirty(loaded, held) = {} THEN current
    ELSE [c \in DOMAIN current |->
            IF c \in Dirty(loaded, held) THEN held[c]
            ELSE IF c = "updated_at" THEN t ELSE current[c]]

\* commit of a session that loaded its row as `loaded`: the pending writes
\* in order over store d
RECURSIVE CommitOver(_, _, _, _)
CommitOver(d, ops, loaded, t) ==
    IF ops = <<>> THEN [ok |-> TRUE, db |-> d]
    ELSE LET op == Head(ops)
         IN IF ~ForeignKeysHold(d, op) THEN [ok |-> FALSE, db |-> d]
            ELSE IF op.op = "update"
            THEN CommitOver([d EXCEPT ![op.table] =
                                PutRow(@, op.id,
                                       UpdateColumns(@[op.id], loaded, op.row, t))],
                            Tail(ops), loaded, t)
            ELSE CommitOver(Written(d, op, t), Tail(ops), loaded, t)

\* push_changes with one event on an existing customer or debt, up to the
\* select of its row and the assignments to it (sync.py 173-200, 211-298)
PushSelect(headers, evs) ==
    /\ Len(txs.calls) < MaxRaces
    /\ \E h \in headers, e \in evs :
         LET tenant_id == GetTenantId(h)
             ev == Numbered(e, 1)
             r == Dispatch(db, tenant_id, ev)
         IN /\ tenant_id # Unresolved
            /\ r.out = "commit"
            /\ r.ops # <<>>
            /\ r.ops[1].op = "update"
            /\ txs' = [txs EXCEPT
                         !.calls = Append(@,
                            [kind |-> "push", tenant_id |-> tenant_id,
                             table |-> r.ops[1].table, id |-> r.ops[1].id,
                             payload |-> ev.payload, valor |-> 0,
                             loaded |-> db[r.ops[1].table][r.ops[1].id],
                             held |-> r.ops[1].row,
                             ops |-> r.ops, pc |-> "selected"]),
                         !.base = IF txs.calls = <<>> THEN db ELSE @]
    /\ UNCHANGED <<db, now, session, req, handled, chain, lote, scan>>

\* registrar_pagamento_divida up to the select of the debt and the new
\* aggregates (dividas.py 324-358)
PagamentoSelect(headers, valores) ==
    /\ Len(txs.calls) < MaxRaces
    /\ \E h \in headers, divida_id \in EntityIds, valor \in valores :
         LET tenant_id == GetTenantId(h)
             pagamento == [divida_id |-> divida_id, valor |-> valor,
                           forma_pagamento |-> <<"m">>]
         IN /\ tenant_id # Unresolved
            /\ valor > 0
            /\ OwnedBy(db.dividas, divida_id, tenant_id)
            /\ txs' = [txs EXCEPT
                         !.calls = Append(@,
                            [kind |-> "pagamento", tenant_id |-> tenant_id,
                             table |-> "dividas", id |-> divida_id,
                             payload |-> Payload, valor |-> valor,
                             loaded |-> db.dividas[divida_id],
                             held |-> PagamentoRegistrado(db.dividas[divida_id],
                                                          valor),
                             ops |-> <<ChildOp("pagamentos_divida", pagamento),
                                       UpdateOp("dividas", divida_id,
                                           PagamentoRegistrado(
                                               db.dividas[divida_id], valor))>>,
                             pc |-> "selected"]),
                         !.base = IF txs.calls = <<>> THEN db ELSE @]
    /\ UNCHANGED <<db, now, session, req, handled, chain, lote, scan>>

\* `await db.commit()` of one of the requests (sync.py 202, 300;
\* dividas.py 360)
CommitCall ==
    /\ \E i \in DOMAIN txs.calls :
         LET c == txs.calls[i]
             done == CommitOver(db, c.ops, c.loaded, now)
         IN /\ c.pc = "selected"
            /\ done.ok
            /\ db' = done.db
            /\ txs' = [txs EXCEPT !.calls[i].pc = "done",
                                  !.commits = Append(@, i)]
    /\ UNCHANGED <<now, session, req, handled, chain, lote, scan>>

(***************************************************************************)
(* GET /api/sync/pull, query by query.  The three selects of a call are    *)
(* three statements: each reads the store as committed when it runs.       *)
(***************************************************************************)
\* lines 338-435: since and limit parsed, the orders selected and listed
ScanVendas(sinces, limits, headers) ==
    /\ scan.step \in {0, 3}
    /\ \E h \in headers, since \in sinces, limit \in limits :
         LET tenant_id == GetTenantId(h)
         IN /\ tenant_id # Unresolved
            /\ \E pv \in Pages(db.vendas,
                               Selected(db, "vendas", tenant_id, ParseSince(since)),
                               LimitI(limit)) :
                 scan' = [NoScan EXCEPT
                            !.step = 1, !.tenant_id = tenant_id,
                            !.since = since, !.limit = limit,
                            !.pedidos = [x \in DOMAIN pv |->
                                            PedidoOut(db, tenant_id, pv[x])],
                            !.max_updated = MaxUpdated(NoSince, db.vendas, pv)]
    /\ UNCHANGED <<db, now, session, req, handled, chain, lote, txs>>

\* lines 440-472: the customers selected and listed
ScanClientes ==
    /\ scan.step = 1
    /\ \E pc \in Pages(db.clientes,
                        Selected(db, "clientes", scan.tenant_id,
                                 ParseSince(scan.since)),
                        LimitI(scan.limit)) :
         scan' = [scan EXCEPT
                    !.step = 2,
                    !.clientes = [x \in DOMAIN pc |-> ClienteOut(db, pc[x])],
                    !.max_updated = MaxUpdated(@, db.clientes, pc)]
    /\ UNCHANGED <<db, now, session, req, handled, chain, lote, txs>>

\* lines 477-581: the debts selected and listed, and the response
ScanDividas ==
    /\ scan.step = 2
    /\ \E pd \in Pages(db.dividas,
                        Selected(db, "dividas", scan.tenant_id,
                                 ParseSince(scan.since)),
                        LimitI(scan.limit)) :
         LET dividas == [x \in DOMAIN pd |-> DividaOut(db, scan.tenant_id, pd[x])]
             max_updated == MaxUpdated(scan.max_updated, db.dividas, pd)
         IN scan' = [scan EXCEPT
                       !.step = 3,
                       !.dividas = dividas,
                       !.max_updated = max_updated,
                       !.resp = [pedidos |-> scan.pedidos,
                                 clientes |-> scan.clientes,
                                 dividas |-> dividas,
                                 next_since |-> max_updated,
                                 since |-> scan.since,
                                 limit |-> LimitI(scan.limit)],
                       !.at = db]
    /\ UNCHANGED <<db, now, session, req, handled, chain, lote, txs>>

(***************************************************************************)
(* PUT /api/vendas/{venda_id}/cancelar                                     *)
(***************************************************************************)
\* cancelar_venda: one UPDATE of the order of that id and tenant, setting
\* cancelada and updated_at, then commit
CancelarVenda(headers) ==
    /\ \E h \in headers, venda_id \in EntityIds :
         LET tenant_id == GetTenantId(h)
         IN /\ tenant_id # Unresolved
            /\ OwnedBy(db.vendas, venda_id, tenant_id)
            /\ db' = [db EXCEPT !.vendas[venda_id].cancelada = TRUE,
                                !.vendas[venda_id].updated_at = now]
    /\ chain' = [chain EXCEPT !.quiet = FALSE, !.still = FALSE]
    /\ UNCHANGED <<now, session, req, handled>>
    /\ UNCHANGED <<lote, txs, scan>>

\* the server clock advances
Tick ==
    /\ now < MaxTime
    /\ now' = now + 1
    /\ UNCHANGED <<db, session, req, handled, chain>>
    /\ UNCHANGED <<lote, txs, scan>>

(***************************************************************************)
(* Specifications.                                                         *)
(***************************************************************************)
\* Push requests of the two tenants with every kind of event, and pulls from
\* the beginning, all within one tick of the server clock.
Next ==
    \/ PushBegin(MaxEvents, Tenants)
    \/ PushEvent(PushEvents, MaxEvents)
    \/ PushReturn
    \/ PullFirst({NoSince}, {DefaultLimit}, Tenants)

Spec == Init /\ [][Next]_vars

\* Plain writes while the clock advances, and chains of pulls, each from the
\* cursor the one before it returned.
FeedLimits == {1, DefaultLimit}
NextFeed ==
    \/ PushBegin(MaxWrites, Tenants)
    \/ PushEvent(FeedEvents, MaxWrites)
    \/ PushReturn
    \/ PullFirst({NoSince}, FeedLimits, Tenants)
    \/ PullNext
    \/ Tick

SpecFeed == Init /\ [][NextFeed]_vars

\* Pushes that create and update headers under every kind of X-Tenant-Id
\* header, and payments registered on the debts in between.
NextUpsert ==
    \/ PushBegin(MaxUpserts, Headers)
    \/ PushEvent(UpsertEvents, MaxUpserts)
    \/ PushReturn
    \/ RegistrarPagamento(Headers, Valores, MaxUpserts)

SpecUpsert == Init /\ [][NextUpsert]_vars

\* Orders, customers and debts written and orders cancelled while the
\* clock advances, all for one tenant; then one pull, with every kind of
\* limit, of the store so reached.
PageEvents ==
    { Pedido("u1", <<>>), Pedido("u2", <<>>),
      Cliente("u1", <<"a">>), Divida("u1", 50, <<>>) }
PageLimits == {-1, 0, 1, DefaultLimit, MaxLimit + 1}
PageSinces == {NoSince, Isoformat(0)}
NextPage ==
    \/ chain.n = 0 /\ PushBegin(MaxPageWrites, {TenantA})
    \/ chain.n = 0 /\ PushEvent(PageEvents, MaxPageWrites)
    \/ chain.n = 0 /\ PushReturn
    \/ chain.n = 0 /\ CancelarVenda({TenantA})
    \/ chain.n = 0 /\ Tick
    \/ chain.n = 0 /\ PullFirst(PageSinces, PageLimits, {TenantA})

SpecPage == Init /\ [][NextPage]_vars

\* Batches of debts sent to POST /api/dividas/sync by the two tenants.
Registros ==
    { Registro(Num(7), <<ItemById("p1")>>),
      Registro(Num(8), <<ItemById("p1"), ItemById("p1")>>),
      Registro(Num(9), <<>>),
      Registro(None, <<ItemById("p2")>>) }
Lotes == UNION {[1..n -> Registros] : n \in 1..MaxRecords}
NextLote ==
    \/ SyncDividas(Tenants, Lotes, MaxLotes)
    \/ Tick

SpecLote == Init /\ [][NextLote]_vars

\* A customer and a debt of one tenant are pushed; then requests on them
\* are served at the same time, their selects and commits in any order.
SetupEvents == { Cliente("u1", <<"a">>), Divida("u1", 50, <<>>) }
RaceEvents ==
    { Cliente("u1", <<"a">>), Cliente("u1", <<"b">>),
      [entity |-> "divida",
       payload |-> [Payload EXCEPT !.id = Uuid("u1"), !.valor_pago = Num(20),
                                   !.status = Str(<<"Parcial">>)]],
      [entity |-> "divida",
       payload |-> [Payload EXCEPT !.id = Uuid("u1"), !.valor_pago = Num(0),
                                   !.status = Str(<<"Pendente">>)]] }
RaceValores == {30, 50}
NextRace ==
    \/ txs.calls = <<>> /\ PushBegin(MaxSetup, {TenantA})
    \/ txs.calls = <<>> /\ PushEvent(SetupEvents, MaxSetup)
    \/ txs.calls = <<>> /\ PushReturn
    \/ PushSelect({TenantA}, RaceEvents)
    \/ PagamentoSelect({TenantA}, RaceValores)
    \/ CommitCall

SpecRace == Init /\ [][NextRace]_vars

\* Pushes of one tenant that commit while a pull of the tenant goes through
\* its three queries, and the clock advancing.
ScanEvents ==
    { Pedido("u1", <<>>), Cliente("u1", <<"a">>), Divida("u1", 50, <<>>),
      Pedido("u1", <<ItemById("p1")>>), Divida("u1", 50, <<Pagamento(50)>>) }
ScanLimits == {1, DefaultLimit}
NextScan ==
    \/ PushBegin(MaxScanWrites, {TenantA})
    \/ PushEvent(ScanEvents, MaxScanWrites)
    \/ PushReturn
    \/ ScanVendas({NoSince}, ScanLimits, {TenantA})
    \/ ScanClientes
    \/ ScanDividas
    \/ Tick

SpecScan == Init /\ [][NextScan]_vars

(***************************************************************************)
(* Properties of push_changes.                                             *)
(***************************************************************************)
Handled == DOMAIN req.events

\* table tbl holds a row of id i that belongs to tenant t
RowOf(tbl, i, t) == i \in DOMAIN tbl /\ tbl[i].tenant_id = t

FailedAt(k) == k \in DOMAIN req.results /\ ~req.results[k].ok

\* event j handled on its own: by a session with nothing pending, on the
\* store event j found
Alone(j) ==
    ApplyEvent(req.trail[j].pre, <<>>, req.tenant_id, req.events[j], req.trail[j].t)

\* the id an event names, NoUuid when it names none
EntityIdOf(ev) ==
    CASE Lower(ev.entity) = "pedido" -> ParseUuid(ev.payload.uuid)
      [] Lower(ev.entity) = "cliente" ->
            ParseUuid(OrElse(ev.payload.id, ev.payload.uuid))
      [] Lower(ev.entity) = "divida" -> ParseUuid(ev.payload.id)
      [] OTHER -> NoUuid

TableOf(ev) ==
    CASE Lower(ev.entity) = "pedido" -> "vendas"
      [] Lower(ev.entity) = "cliente" -> "clientes"
      [] OTHER -> "dividas"

\* the header row of event j is in store d, owned by the tenant of the request
HeaderIn(d, j) ==
    EntityIdOf(req.events[j]) # NoUuid =>
        RowOf(d[TableOf(req.events[j])], EntityIdOf(req.events[j]), req.tenant_id)

StoreAfterBatch == IF req.trail = <<>> THEN db ELSE req.trail[Len(req.trail)].post

\* C1: batch isolation.  When event k of a batch failed, (a) every later
\* event of the batch is handled and gets the result and the effect it gets
\* on its own: ok and persisted when it is valid; (b) the failure undoes
\* nothing: the store after event k is the store before it, every store an
\* event finds is the one its predecessor left, and the header of every
\* earlier event reported ok is in the store when the call returns.
BatchIsolation ==
    \A k \in Handled : FailedAt(k) =>
        /\ \A j \in Handled : j > k =>
              /\ j \in DOMAIN req.results
              /\ req.results[j] = Alone(j).result[1]
              /\ req.trail[j].post = Alone(j).db
              /\ req.results[j].ok => HeaderIn(req.trail[j].post, j)
        /\ req.trail[k].post = req.trail[k].pre
        /\ \A i \in Handled : i < k =>
              /\ req.trail[i + 1].pre = req.trail[i].post
              /\ req.results[i].ok =>
                    /\ HeaderIn(StoreAfterBatch, i)
                    /\ req.phase = "returned" => HeaderIn(db, i)

\* a batch of three returned: event 2 broke a foreign key after its header
\* was flushed, events 1 and 3 are reported ok and their rows are stored
BatchIsolationWitness ==
    /\ req.phase = "returned"
    /\ Len(req.events) = 3
    /\ Len(req.results) = 3
    /\ req.results[1].ok
    /\ Lower(req.events[1].entity) = "cliente"
    /\ req.results[2].error = "IntegrityError"
    /\ Lower(req.events[2].entity) = "pedido"
    /\ req.results[3].ok
    /\ Lower(req.events[3].entity) = "divida"
    /\ RowOf(db.clientes, "u1", req.tenant_id)
    /\ RowOf(db.dividas, "u1", req.tenant_id)
    /\ "u1" \notin DOMAIN db.vendas

\* C2: the results list has one entry per event handled, in the order of
\* the events, entry i carrying the outbox_id of event i, whatever the
\* handlers did; so it has when the call returns.
OneResultPerEvent ==
    /\ Len(req.results) = Len(req.events)
    /\ \A i \in DOMAIN req.results :
          req.results[i].outbox_id = req.events[i].outbox_id

\* a returned batch of three in which one handler raised, one event was
\* reported for its missing uuid and one succeeded
OneResultPerEventWitness ==
    /\ req.phase = "returned"
    /\ Len(req.events) = 3
    /\ \E i, j, k \in DOMAIN req.results :
          /\ req.results[i].error = "IntegrityError"
          /\ req.results[j].error = "missing uuid"
          /\ req.results[k].ok
    /\ <<req.results[1].outbox_id, req.results[2].outbox_id,
         req.results[3].outbox_id>> = <<OutboxId(1), OutboxId(2), OutboxId(3)>>

\* the business columns of the header row event j names, in store d
HeaderOf(d, j) ==
    Unstamped(d[TableOf(req.events[j])][EntityIdOf(req.events[j])])

SameEvent(i, j) ==
    /\ req.events[i].entity = req.events[j].entity
    /\ req.events[i].payload = req.events[j].payload

\* C3: idempotent header upsert.  When an order, customer or debt event
\* with a valid id is reported ok and the same event is pushed again right
\* after it, the second push is reported ok and leaves one header row of
\* that id, with the header fields the first push left.
IdempotentHeaderUpsert ==
    \A j \in Handled :
        /\ j > 1
        /\ j \in DOMAIN req.results
        /\ SameEvent(j - 1, j)
        /\ EntityIdOf(req.events[j]) # NoUuid
        /\ req.results[j - 1].ok
        => /\ req.results[j].ok
           /\ HeaderIn(req.trail[j].post, j)
           /\ HeaderOf(req.trail[j].post, j) = HeaderOf(req.trail[j - 1].post, j)

\* rows of tenant t in store d: its headers and the child rows they own
TenantRows(d, t) ==
    LET own(tbl) == {i \in DOMAIN d[tbl] : d[tbl][i].tenant_id = t}
    IN [vendas |-> [i \in own("vendas") |-> d.vendas[i]],
        clientes |-> [i \in own("clientes") |-> d.clientes[i]],
        dividas |-> [i \in own("dividas") |-> d.dividas[i]],
        itens_venda |->
            SelectSeq(d.itens_venda, LAMBDA r : r.venda_id \in own("vendas")),
        itens_divida |->
            SelectSeq(d.itens_divida, LAMBDA r : r.divida_id \in own("dividas")),
        pagamentos_divida |->
            SelectSeq(d.pagamentos_divida, LAMBDA r : r.divida_id \in own("dividas"))]

\* an event of a request of one tenant leaves the rows of the others alone
PushIsolated ==
    \A t \in Tenants : t # req'.tenant_id => TenantRows(db', t) = TenantRows(db, t)

\* filled snapshot fields of an item come from a product of tenant t
SnapshotsOf(itens, t) ==
    \A x \in DOMAIN itens :
        itens[x].produto_codigo # <<>> \/ itens[x].produto_nome # <<>> =>
            /\ itens[x].produto_id \in ProductIds
            /\ Produtos[itens[x].produto_id].tenant_id = t

\* the last pull returned rows and snapshots of its own tenant only
PullIsolated ==
    LET r == chain.resp
        t == chain.tenant_id
    IN /\ \A x \in DOMAIN r.pedidos :
             /\ RowOf(db.vendas, r.pedidos[x].uuid, t)
             /\ SnapshotsOf(r.pedidos[x].itens, t)
       /\ \A x \in DOMAIN r.clientes : RowOf(db.clientes, r.clientes[x].id, t)
       /\ \A x \in DOMAIN r.dividas :
             /\ RowOf(db.dividas, r.dividas[x].id, t)
             /\ SnapshotsOf(r.dividas[x].itens, t)
             /\ \A y \in DOMAIN r.dividas[x].pagamentos :
                   r.dividas[x].pagamentos[y].divida_id = r.dividas[x].id

\* C4: tenant isolation.  No step of a push request of one tenant creates,
\* changes or deletes a header or child row of another tenant, and every
\* row and every product snapshot a pull returns belongs to the tenant of
\* the pull.
TenantIsolation == [](PullIsolated) /\ [][PushIsolated]_vars

\* tenant A holds a customer u1; tenant B pushed customer u1 and was refused,
\* pushed an order with an item on a product of tenant A, and pulled it:
\* the item comes without a snapshot
TenantIsolationWitness ==
    /\ RowOf(db.clientes, "u1", TenantA)
    /\ req.tenant_id = TenantB
    /\ \E i \in DOMAIN req.results :
          /\ Lower(req.events[i].entity) = "cliente"
          /\ req.results[i].error = "IntegrityError"
    /\ chain.n = 1
    /\ chain.tenant_id = TenantB
    /\ Len(chain.resp.pedidos) = 1
    /\ Len(chain.resp.pedidos[1].itens) = 1
    /\ chain.resp.pedidos[1].itens[1].produto_id = "p1"
    /\ chain.resp.pedidos[1].itens[1].produto_codigo = <<>>

\* an item of a pedido names no product of the tenant, by id or by codigo
Unresolvable(tenant, it) ==
    \/ ResolveProduto(tenant, it) \notin ProductIds
    \/ Produtos[ResolveProduto(tenant, it)].tenant_id # tenant

\* C10: a pedido event with an item whose product cannot be resolved in the
\* tenant is rejected whole: reported ok=false with InvalidReference, and
\* nothing of it is stored, so that no pull returns the order.
UnresolvableItemRejected ==
    \A j \in Handled :
        /\ j \in DOMAIN req.results
        /\ Lower(req.events[j].entity) = "pedido"
        /\ Truthy(req.events[j].payload.uuid)
        /\ \E x \in DOMAIN req.events[j].payload.itens :
              Unresolvable(req.tenant_id, req.events[j].payload.itens[x])
        => /\ ~req.results[j].ok
           /\ req.results[j].error = "InvalidReference"
           /\ req.trail[j].post = req.trail[j].pre
           /\ \A t \in Tenants :
                 \A r \in PullResponses(req.trail[j].post, t, NoSince, 0) :
                    \A x \in DOMAIN r.pedidos :
                       r.pedidos[x].uuid \in DOMAIN req.trail[j].pre.vendas

(***************************************************************************)
(* Properties of pull_changes, over the chain of pulls of one client.      *)
(***************************************************************************)
\* the since the last call of the chain was given
LastSince == IF chain.n <= 1 THEN chain.first ELSE chain.prev_next

\* position of a cursor on the clock; no cursor is "from the beginning"
CursorAt(c) == ParseSince(c)

StampsOf(resp) == {k[3] : k \in Delivered(resp)}

NoRows(resp) == resp.pedidos = <<>> /\ resp.clientes = <<>> /\ resp.dividas = <<>>

\* C5: cursor monotonicity.  In a chain of pulls the next_since of a call
\* is not before the next_since of the call before it, and no call returns
\* a row whose updated_at is at or before the since it was given.
CursorMonotone ==
    /\ chain.n >= 2 => CursorAt(chain.resp.next_since) >= CursorAt(chain.prev_next)
    /\ chain.n >= 1 /\ ParseSince(LastSince) # NoTime =>
          \A t \in StampsOf(chain.resp) : t > ParseSince(LastSince)

\* C6: fixed point.  A pull from the next_since c of the pull before it,
\* with no write between the two, returns three empty lists and c again.
PullFixedPoint ==
    chain.n >= 2 /\ chain.calm =>
        /\ NoRows(chain.resp)
        /\ chain.resp.next_since = chain.prev_next

\* rows of table tbl a client of tenant t is to receive
Feedable(tbl, t) == Selected(db, tbl, t, NoTime)

\* C7: nothing is dropped.  With no write since the chain began with no
\* since, once a call returns three empty lists every order that is not
\* cancelled, every customer and every debt of the tenant was returned by a
\* call of the chain.
NothingDropped ==
    /\ chain.n >= 1
    /\ chain.first = NoSince
    /\ chain.quiet
    /\ NoRows(chain.resp)
    => \A tbl \in HeaderTables : \A i \in Feedable(tbl, chain.tenant_id) :
          \E k \in chain.delivered : k[1] = tbl /\ k[2] = i

\* C8: nothing is duplicated.  A row the last call returned was returned by
\* no earlier call of the chain with the same updated_at.
NothingDuplicated ==
    chain.n >= 2 => Delivered(chain.resp) \cap chain.earlier = {}

\* C9: when a pull returns rows, next_since is the greatest updated_at of
\* the rows it returned, over the three lists.
NextSinceIsMaximum ==
    chain.n >= 1 /\ ~NoRows(chain.resp) =>
        /\ chain.resp.next_since.fmt = "iso"
        /\ \A t \in StampsOf(chain.resp) : t <= chain.resp.next_since.t
        /\ chain.resp.next_since.t \in StampsOf(chain.resp)

(***************************************************************************)
(* Further properties of push_changes.                                     *)
(***************************************************************************)
KnownEntities == {"pedido", "cliente", "divida"}

\* C11: an event whose entity is not pedido, cliente or divida is reported
\* ok=true with error null, and every table is after it as it was before.
UnknownEntityAccepted ==
    \A j \in Handled :
        /\ j \in DOMAIN req.results
        /\ Lower(req.events[j].entity) \notin KnownEntities
        => /\ req.results[j].ok
           /\ req.results[j].error = ""
           /\ req.trail[j].post = req.trail[j].pre

\* a returned batch whose second event is of an unknown entity, handled on
\* a store that already holds the customer of the first event
UnknownEntityAcceptedWitness ==
    /\ req.phase = "returned"
    /\ Len(req.events) >= 2
    /\ Len(req.results) >= 2
    /\ req.events[2].entity = "produto"
    /\ req.results[2].ok
    /\ RowOf(req.trail[2].pre.clientes, "u1", req.tenant_id)
    /\ db = req.trail[2].pre

\* every item of the payload names a product of the tenant
AllResolve(tenant, itens) ==
    \A x \in DOMAIN itens : ~Unresolvable(tenant, itens[x])

\* response r holds order o with n items, each with the snapshot of its product
ReturnsOrder(r, o, n) ==
    \E x \in DOMAIN r.pedidos :
        /\ r.pedidos[x].uuid = o
        /\ Len(r.pedidos[x].itens) = n
        /\ \A y \in DOMAIN r.pedidos[x].itens :
              LET it == r.pedidos[x].itens[y]
              IN /\ it.produto_id \in ProductIds
                 /\ it.produto_codigo = Produtos[it.produto_id].codigo
                 /\ it.produto_nome = Produtos[it.produto_id].nome

\* C12: push-then-pull round trip.  After a pedido event of id o whose
\* items all resolve to products of the tenant is reported ok, a pull of
\* the tenant with no since returns order o with one item per pushed item,
\* each with the codigo and nome of its product.
OrderRoundTrip ==
    \A j \in Handled :
        /\ j \in DOMAIN req.results
        /\ Lower(req.events[j].entity) = "pedido"
        /\ ParseUuid(req.events[j].payload.uuid) # NoUuid
        /\ AllResolve(req.tenant_id, req.events[j].payload.itens)
        /\ req.results[j].ok
        => \A r \in PullResponses(req.trail[j].post, req.tenant_id, NoSince, 0) :
              ReturnsOrder(r, ParseUuid(req.events[j].payload.uuid),
                           Len(req.events[j].payload.itens))

\* the header row of the entity event j names, in the store before and
\* after the event
Before(j) == req.trail[j].pre[TableOf(req.events[j])][EntityIdOf(req.events[j])]
After(j) == req.trail[j].post[TableOf(req.events[j])][EntityIdOf(req.events[j])]

\* event j of the batch is of entity e, names a valid id and is reported ok
OkEvent(j, e) ==
    /\ j \in DOMAIN req.results
    /\ Lower(req.events[j].entity) = e
    /\ EntityIdOf(req.events[j]) # NoUuid
    /\ req.results[j].ok

\* event j finds the row it names, owned by the tenant of the request
Existing(j) ==
    RowOf(req.trail[j].pre[TableOf(req.events[j])], EntityIdOf(req.events[j]),
          req.tenant_id)

\* the value a column of a customer holds once it took payload value v
ColumnOf(c, v) ==
    CASE c = "nome" -> StrOf(v)
      [] c = "ativo" -> Truthy(v)
      [] OTHER -> v

ClienteColumns == {"nome", "documento", "telefone", "endereco", "ativo"}

\* C13: customer partial update.  When a cliente event finds its customer,
\* a column whose key the payload lacks keeps its value and a column whose
\* key the payload has takes the payload value.
CustomerPartialUpdate ==
    \A j \in Handled :
        OkEvent(j, "cliente") /\ Existing(j) =>
           \A c \in ClienteColumns :
              /\ req.events[j].payload[c].k = "absent" => After(j)[c] = Before(j)[c]
              /\ req.events[j].payload[c].k # "absent" =>
                    After(j)[c] = ColumnOf(c, req.events[j].payload[c])

\* the status that follows from a paid amount and a total
DerivedStatus(valor_pago, valor_total) ==
    IF valor_pago >= valor_total - Epsilon THEN <<"Quitado">>
    ELSE IF valor_pago > 0 THEN <<"Parcial">>
    ELSE <<"Pendente">>

RECURSIVE SumValor(_)
SumValor(pagamentos) ==
    IF pagamentos = <<>> THEN 0
    ELSE Float(Head(pagamentos).valor) + SumValor(Tail(pagamentos))

\* C14: debt status is derived.  After a divida push reported ok the stored
\* status is the one that follows from the stored paid amount and total,
\* whatever the payload carried; and a new debt pushed with payments that
\* cover its total is stored settled.
DebtStatusDerived ==
    \A j \in Handled :
        OkEvent(j, "divida") =>
           /\ After(j).status = DerivedStatus(After(j).valor_pago, After(j).valor_total)
           /\ /\ ~Existing(j)
              /\ SumValor(req.events[j].payload.pagamentos) >=
                    After(j).valor_total - Epsilon
              => After(j).status = <<"Quitado">>

StatusRank(status) ==
    CASE status = <<"Quitado">> -> 2
      [] status = <<"Parcial">> -> 1
      [] OTHER -> 0

\* C15: debt history is one-directional.  No step, payment or push, lowers
\* the valor_pago of a debt or moves its status back in the order
\* Pendente, Parcial, Quitado.
DebtOneDirectional ==
    [][\A i \in DOMAIN db.dividas \cap DOMAIN db'.dividas :
          /\ db'.dividas[i].valor_pago >= db.dividas[i].valor_pago
          /\ StatusRank(db'.dividas[i].status) >= StatusRank(db.dividas[i].status)]_vars

\* C16: payment retry does not double count.  When a divida event reported
\* ok is pushed again right after, with nothing written in between, the
\* valor_pago of the debt after the second push is its valor_pago after
\* the first.
PaymentRetryCountsOnce ==
    \A j \in Handled :
        /\ j > 1
        /\ OkEvent(j - 1, "divida")
        /\ SameEvent(j - 1, j)
        /\ j \in DOMAIN req.results
        /\ req.trail[j].pre = req.trail[j - 1].post
        => /\ EntityIdOf(req.events[j]) \in DOMAIN req.trail[j].post.dividas
           /\ After(j).valor_pago = After(j - 1).valor_pago

\* a returned batch that pushed a debt of 50 paid 50 twice: both events are
\* ok, the payment row is stored twice and valor_pago is 50
PaymentRetryCountsOnceWitness ==
    /\ req.phase = "returned"
    /\ Len(req.events) = 2
    /\ Len(req.results) = 2
    /\ OkEvent(1, "divida")
    /\ OkEvent(2, "divida")
    /\ SameEvent(1, 2)
    /\ req.events[1].payload.pagamentos = <<Pagamento(50)>>
    /\ req.trail[2].pre = req.trail[1].post
    /\ Len(ChildrenOf(db.pagamentos_divida, "divida_id", "u1")) = 2
    /\ RowOf(db.dividas, "u1", req.tenant_id)
    /\ db.dividas["u1"].valor_pago = 50

\* header columns of an order a later push is to leave alone
HardColumns == {"total", "desconto", "forma_pagamento", "cancelada", "created_at"}

\* C17: the order header is not overwritten.  A pedido event that finds its
\* order in the tenant leaves total, desconto, forma_pagamento, cancelada
\* and created_at as they were, whatever the payload carries.
OrderHeaderKept ==
    \A j \in Handled :
        /\ Lower(req.events[j].entity) = "pedido"
        /\ EntityIdOf(req.events[j]) # NoUuid
        /\ Existing(j)
        => /\ EntityIdOf(req.events[j]) \in DOMAIN req.trail[j].post.vendas
           /\ \A c \in HardColumns : After(j)[c] = Before(j)[c]

\* an order that exists is pushed again with another total and another
\* forma_pagamento, and is reported ok
OrderHeaderKeptWitness ==
    \E j \in Handled :
        /\ OkEvent(j, "pedido")
        /\ Existing(j)
        /\ Float(req.events[j].payload.valor_total) = 99
        /\ Before(j).total = 20
        /\ After(j).total = 20
        /\ After(j).forma_pagamento = <<"dinheiro">>
        /\ req.phase = "returned"

RECURSIVE SumSubtotal(_)
SumSubtotal(rows) ==
    IF rows = <<>> THEN 0 ELSE Head(rows).subtotal + SumSubtotal(Tail(rows))

\* Venda.taxa_entrega: push_changes never sets it, the column default stands
TaxaEntrega == 0

\* C18: the order total is server-derived.  After a pedido push reported ok
\* the stored total of the order is the sum of the subtotals of its stored
\* items plus its delivery fee.
OrderTotalDerived ==
    \A j \in Handled :
        OkEvent(j, "pedido") =>
            After(j).total =
                SumSubtotal(ChildrenOf(req.trail[j].post.itens_venda, "venda_id",
                                       EntityIdOf(req.events[j]))) + TaxaEntrega

\* C19: invalid identifier handling.  A pedido, cliente or divida event
\* whose payload has no id, or an id that is no UUID, is reported ok=false
\* with InvalidPayload and leaves every table as it was.
InvalidIdRejected ==
    \A j \in Handled :
        /\ j \in DOMAIN req.results
        /\ Lower(req.events[j].entity) \in KnownEntities
        /\ EntityIdOf(req.events[j]) = NoUuid
        => /\ ~req.results[j].ok
           /\ req.results[j].error = "InvalidPayload"
           /\ req.trail[j].post = req.trail[j].pre

\* C20: tenant resolution failure is request-level.  A push whose
\* X-Tenant-Id header is missing or names no tenant fails before any event
\* is attempted: no event of it is handled and no row is written.
TenantUnresolvedFails ==
    req.x_tenant_id \notin Tenants =>
        /\ req.events = <<>>
        /\ req.trail = <<>>

\* C24: order item reference invariant.  In every store every ItemVenda
\* row names a product that exists and belongs to the tenant of the order
\* that owns the row.
ItemReferencesOwnTenant ==
    \A x \in DOMAIN db.itens_venda :
        LET it == db.itens_venda[x]
        IN /\ it.produto_id \in ProductIds
           /\ it.venda_id \in DOMAIN db.vendas
           /\ Produtos[it.produto_id].tenant_id = db.vendas[it.venda_id].tenant_id

\* C25: per-event atomicity.  An event reported ok=false leaves every
\* table as it was before the event, and no later event of the batch
\* commits anything of it: every later event leaves the store it leaves
\* when handled by a session with nothing pending.
FailedEventLeavesNothing ==
    \A k \in Handled :
        FailedAt(k) =>
           /\ req.trail[k].post = req.trail[k].pre
           /\ \A j \in Handled : j > k =>
                 /\ req.trail[j].pre = req.trail[j - 1].post
                 /\ req.trail[j].post = Alone(j).db

\* an order whose header was flushed before its item broke the foreign key
\* on the product is reported failed and leaves no row; the customer event
\* after it, in the same session, commits its own row only
FailedEventLeavesNothingWitness ==
    /\ req.phase = "returned"
    /\ Len(req.events) = 2
    /\ Len(req.results) = 2
    /\ Lower(req.events[1].entity) = "pedido"
    /\ req.events[1].payload.itens # <<>>
    /\ req.results[1].error = "IntegrityError"
    /\ Lower(req.events[2].entity) = "cliente"
    /\ req.results[2].ok
    /\ req.trail[1].pre = EmptyDb
    /\ db.vendas = EmptyTable
    /\ db.itens_venda = <<>>
    /\ RowOf(db.clientes, "u1", req.tenant_id)

(***************************************************************************)
(* Properties of the pages of pull_changes.                                *)
(***************************************************************************)
\* the three lists of a response
Lists(resp) == {resp.pedidos, resp.clientes, resp.dividas}

\* C21: pull limit bounds.  The limit a response echoes lies in 1..1000,
\* is 500 when the request gave none, and no list of the response has
\* more entries than it.
PullLimitBounds ==
    chain.n >= 1 =>
       /\ chain.resp.limit \in 1..MaxLimit
       /\ chain.limit = DefaultLimit => chain.resp.limit = DefaultLimit
       /\ \A l \in Lists(chain.resp) : Len(l) <= chain.resp.limit

\* a pull with a negative limit over a store with two orders of the tenant
\* returned one order
PullLimitBoundsWitness ==
    /\ chain.n = 1
    /\ chain.limit < 0
    /\ chain.first = NoSince
    /\ Len(chain.resp.pedidos) = 1
    /\ Cardinality(Selected(db, "vendas", chain.tenant_id, NoTime)) = 2

\* the place of an id in the order of the ids
IdRank(i) ==
    CHOOSE n \in 1..Len(<<"u1", "u2">> \o GenSeq) : (<<"u1", "u2">> \o GenSeq)[n] = i

\* the id of an entry of a list of a response
EntryId(e) == IF "uuid" \in DOMAIN e THEN e.uuid ELSE e.id

\* C22: pull page order.  Every list pull_changes may return on a store is
\* in ascending (updated_at, id) order, rows of equal updated_at by id, and
\* the store admits one response only for a given tenant, since and limit.
PullPageOrder ==
    \A since \in PageSinces, limit \in PageLimits :
       LET rs == PullResponses(db, TenantA, since, limit)
       IN /\ Cardinality(rs) = 1
          /\ \A r \in rs : \A l \in Lists(r) : \A a, b \in DOMAIN l :
                a < b =>
                   \/ l[a].updated_at.t < l[b].updated_at.t
                   \/ /\ l[a].updated_at.t = l[b].updated_at.t
                      /\ IdRank(EntryId(l[a])) < IdRank(EntryId(l[b]))

\* C29: pull_changes returns no cancelled order.  No order of the response
\* of a pull has cancelada set in the store the pull read.
PullSkipsCancelled ==
    chain.n >= 1 =>
       \A x \in DOMAIN chain.resp.pedidos :
          ~db.vendas[chain.resp.pedidos[x].uuid].cancelada

\* a pull from the beginning of a store holding a cancelled and a standing
\* order of the tenant returned the standing one alone
PullSkipsCancelledWitness ==
    /\ chain.n = 1
    /\ chain.first = NoSince
    /\ chain.limit = DefaultLimit
    /\ RowOf(db.vendas, "u1", chain.tenant_id)
    /\ RowOf(db.vendas, "u2", chain.tenant_id)
    /\ db.vendas["u1"].cancelada
    /\ ~db.vendas["u2"].cancelada
    /\ Len(chain.resp.pedidos) = 1
    /\ chain.resp.pedidos[1].uuid = "u2"

(***************************************************************************)
(* Properties of sync_dividas.                                             *)
(***************************************************************************)
\* C27: the batch debt sync isolates per-record errors.  The created
\* count a batch returns is the number of debts the batch added to the
\* store, and a batch that only skipped records already there left every
\* table as it was.
LoteIsolatesErrors ==
    lote.data # <<>> =>
       /\ lote.created =
             Cardinality(DOMAIN lote.post.dividas \ DOMAIN lote.pre.dividas)
       /\ lote.skipped = Len(lote.data) => lote.post = lote.pre

\* a batch of one record already there was skipped
LoteIsolatesErrorsWitness ==
    /\ Len(lote.data) = 1
    /\ lote.skipped = 1
    /\ lote.created = 0
    /\ lote.errors = <<>>
    /\ lote.post = lote.pre
    /\ ComIdLocal(db, lote.tenant_id, lote.data[1].id_local) # {}

(***************************************************************************)
(* Properties of requests served at the same time.                         *)
(***************************************************************************)
\* every request has committed
AllCommitted == \A i \in DOMAIN txs.calls : txs.calls[i].pc = "done"

\* the header fields a push sets: the keys of its payload that are columns
\* of the row and carry a value
FieldsSet(c) ==
    {f \in DOMAIN c.payload \cap DOMAIN c.loaded : ~IsNone(c.payload[f])}

\* C23: last writer by commit order wins.  When two pushes that update the
\* same customer or debt with different values for a header field have
\* both committed, the stored value of the field is the one of the push
\* that committed last.
LastWriterWins ==
    \A i, j \in DOMAIN txs.calls :
       LET ci == txs.calls[i]
           cj == txs.calls[j]
       IN /\ AllCommitted
          /\ i # j
          /\ ci.kind = "push" /\ cj.kind = "push"
          /\ ci.table = cj.table /\ ci.id = cj.id
          /\ txs.commits[Len(txs.commits)] = j
          => \A f \in FieldsSet(ci) \cap FieldsSet(cj) :
                ci.held[f] # cj.held[f] => db[cj.table][cj.id][f] = cj.held[f]

\* the payments of debt i in store d
PagamentosOf(d, i) == ChildrenOf(d.pagamentos_divida, "divida_id", i)

RECURSIVE SomaValor(_)
SomaValor(rows) == IF rows = <<>> THEN 0 ELSE Head(rows).valor + SomaValor(Tail(rows))

\* C30: no lost payment.  When payment requests on one debt, served at the
\* same time, have all committed, the paid amount of the debt is the one
\* before them plus the payments they inserted, and the status is Quitado
\* exactly when that amount is within 0.01 of the total.
NoLostPayment ==
    \A i \in EntityIds :
       (/\ AllCommitted
        /\ Len(txs.calls) >= 2
        /\ \A k \in DOMAIN txs.calls :
              txs.calls[k].kind = "pagamento" /\ txs.calls[k].id = i)
       => LET paid == txs.base.dividas[i].valor_pago
                      + SomaValor(PagamentosOf(db, i))
                      - SomaValor(PagamentosOf(txs.base, i))
          IN /\ db.dividas[i].valor_pago = paid
             /\ db.dividas[i].status = <<"Quitado">>
                   <=> paid >= db.dividas[i].valor_total - Epsilon

(***************************************************************************)
(* Properties of a pull among pushes.                                      *)
(***************************************************************************)
\* the list of a response that carries the rows of a table
ListOf(resp, table) ==
    CASE table = "vendas" -> resp.pedidos
      [] table = "clientes" -> resp.clientes
      [] OTHER -> resp.dividas

\* C26: pull is consistent under concurrent pushes.  When a call returns,
\* every row of the tenant committed by then with since < updated_at <=
\* next_since is in its response, unless the list of its type is full.
PullConsistent ==
    (scan.step = 3 /\ scan.resp.next_since # NoSince) =>
       \A table \in HeaderTables :
          \A i \in Selected(scan.at, table, scan.tenant_id, ParseSince(scan.since)) :
             scan.at[table][i].updated_at <= scan.resp.next_since.t =>
                \/ <<table, i, scan.at[table][i].updated_at>> \in Delivered(scan.resp)
                \/ Len(ListOf(scan.resp, table)) = scan.resp.limit

\* the child rows of header i of a table
Kids(d, table, i) ==
    IF table = "vendas" THEN <<ChildrenOf(d.itens_venda, "venda_id", i)>>
    ELSE <<ChildrenOf(d.itens_divida, "divida_id", i),
           ChildrenOf(d.pagamentos_divida, "divida_id", i)>>

\* C28: every successful push becomes visible to a chained pull.  When an
\* event reported ok has added child rows to an order or a debt that was
\* there, a pull from the cursor a pull before the push returned gives
\* that order or debt again.
PushVisibleToPull ==
    \A j \in Handled : req.results[j].ok =>
       \A table \in {"vendas", "dividas"}, i \in EntityIds :
          (/\ RowOf(req.trail[j].pre[table], i, req.tenant_id)
           /\ Kids(req.trail[j].post, table, i) # Kids(req.trail[j].pre, table, i))
          => \A r1 \in PullResponses(req.trail[j].pre, req.tenant_id, NoSince,
                                     DefaultLimit) :
                (r1.next_since # NoSince /\ r1.next_since.t < req.trail[j].t)
                => \A r2 \in PullResponses(req.trail[j].post, req.tenant_id,
                                           r1.next_since, DefaultLimit) :
                      \E x \in DOMAIN ListOf(r2, table) :
                         EntryId(ListOf(r2, table)[x]) = i
====
